---------------------------- MODULE Spec2Model ----------------------------
(***************************************************************************)
(* Model of actix_postgres_api/src/auth_utils.rs: the bcrypt wrapper       *)
(* (hash_password, verify_password) and the six field validators.          *)
(*                                                                         *)
(* A Rust &str is modelled as a sequence of Unicode scalar values (code    *)
(* points).  str::len() is the length of the UTF-8 encoding in BYTES,      *)
(* str::chars() walks the code points.  The character tables cover every   *)
(* code point: those of the standard library follow Unicode 17.0, those of *)
(* the regex crate Unicode 16.0.                                           *)
(***************************************************************************)
EXTENDS Integers, Sequences, FiniteSets, TLC

VARIABLES fn,      \* the function under call
          arg,     \* its first argument (password / email / phone / ...)
          arg2,    \* verify_password: the candidate password
          hash,    \* the hash returned by hash_password
          res,     \* the value returned by the call
          pc       \* "call" -> ("hashed" ->) "done"

vars == <<fn, arg, arg2, hash, res, pc>>

---------------------------------------------------------------------------
(* Bounds of the explored input sets *)

\* longest freely enumerated suffix of a password / username / phone input
MaxTail == 3
\* longest freely enumerated suffix of an email input ("@a.aa" needs 5)
MaxEmailTail == 5
\* how far below a length limit the padding of an input starts
Window == 3
\* longest padding of a phone number (the pattern allows 20 or 21 characters)
MaxPhonePad == 21
\* number of distinct salts hash_password may draw
NumSalts == 2
\* longest freely enumerated suffix of a bcrypt password
MaxPwTail == 2

---------------------------------------------------------------------------
(* Strings *)

RECURSIVE Rep(_, _)
\* the string made of n copies of the character c
Rep(c, n) == IF n <= 0 THEN <<>> ELSE <<c>> \o Rep(c, n - 1)

\* all strings over alphabet of length 0..k
Strings(alphabet, k) == UNION { [1..n -> alphabet] : n \in 0..k }

\* number of bytes of the UTF-8 encoding of a code point
Utf8Len(c) == IF c < 128 THEN 1 ELSE IF c < 2048 THEN 2 ELSE IF c < 65536 THEN 3 ELSE 4

RECURSIVE len(_)
\* str::len(): length in bytes
len(s) == IF s = <<>> THEN 0 ELSE Utf8Len(Head(s)) + len(Tail(s))

\* str::contains(char)
contains(s, c) == \E i \in 1..Len(s) : s[i] = c

\* char::is_digit(10): the ASCII digits only
is_digit(c) == c \in 48..57

\* [a-z], [A-Z], [a-zA-Z] of the regex patterns
AsciiLower(c) == c \in 97..122
AsciiUpper(c) == c \in 65..90
AsciiAlpha(c) == AsciiLower(c) \/ AsciiUpper(c)

\* c lies in one of the runs <<first, last, step, ...>> of table
InTable(c, table) ==
    \E r \in table : c >= r[1] /\ c <= r[2] /\ (c - r[1]) % r[3] = 0

\* the Uppercase property above U+007F (Unicode 17.0): runs <<first, last, step>>
UppercaseTable ==
    { <<192, 214, 1>>, <<216, 222, 1>>, <<256, 310, 2>>, <<313, 327, 2>>,
      <<330, 376, 2>>, <<377, 381, 2>>, <<385, 386, 1>>, <<388, 388, 1>>,
      <<390, 391, 1>>, <<393, 395, 1>>, <<398, 401, 1>>, <<403, 404, 1>>,
      <<406, 408, 1>>, <<412, 413, 1>>, <<415, 416, 1>>, <<418, 422, 2>>,
      <<423, 423, 1>>, <<425, 425, 1>>, <<428, 428, 1>>, <<430, 431, 1>>,
      <<433, 435, 1>>, <<437, 437, 1>>, <<439, 440, 1>>, <<444, 444, 1>>,
      <<452, 452, 1>>, <<455, 455, 1>>, <<458, 458, 1>>, <<461, 475, 2>>,
      <<478, 494, 2>>, <<497, 497, 1>>, <<500, 500, 1>>, <<502, 504, 1>>,
      <<506, 562, 2>>, <<570, 571, 1>>, <<573, 574, 1>>, <<577, 577, 1>>,
      <<579, 582, 1>>, <<584, 590, 2>>, <<880, 880, 1>>, <<882, 882, 1>>,
      <<886, 886, 1>>, <<895, 895, 1>>, <<902, 902, 1>>, <<904, 906, 1>>,
      <<908, 908, 1>>, <<910, 911, 1>>, <<913, 929, 1>>, <<931, 939, 1>>,
      <<975, 975, 1>>, <<978, 980, 1>>, <<984, 1006, 2>>, <<1012, 1012, 1>>,
      <<1015, 1015, 1>>, <<1017, 1018, 1>>, <<1021, 1071, 1>>, <<1120, 1152,
      2>>, <<1162, 1216, 2>>, <<1217, 1229, 2>>, <<1232, 1326, 2>>, <<1329,
      1366, 1>>, <<4256, 4293, 1>>, <<4295, 4295, 1>>, <<4301, 4301, 1>>,
      <<5024, 5109, 1>>, <<7305, 7305, 1>>, <<7312, 7354, 1>>, <<7357, 7359,
      1>>, <<7680, 7828, 2>>, <<7838, 7934, 2>>, <<7944, 7951, 1>>, <<7960,
      7965, 1>>, <<7976, 7983, 1>>, <<7992, 7999, 1>>, <<8008, 8013, 1>>,
      <<8025, 8031, 2>>, <<8040, 8047, 1>>, <<8120, 8123, 1>>, <<8136, 8139,
      1>>, <<8152, 8155, 1>>, <<8168, 8172, 1>>, <<8184, 8187, 1>>, <<8450,
      8450, 1>>, <<8455, 8455, 1>>, <<8459, 8461, 1>>, <<8464, 8466, 1>>,
      <<8469, 8469, 1>>, <<8473, 8477, 1>>, <<8484, 8490, 2>>, <<8491, 8493,
      1>>, <<8496, 8499, 1>>, <<8510, 8511, 1>>, <<8517, 8517, 1>>, <<8544,
      8559, 1>>, <<8579, 8579, 1>>, <<9398, 9423, 1>>, <<11264, 11311, 1>>,
      <<11360, 11360, 1>>, <<11362, 11364, 1>>, <<11367, 11373, 2>>,
      <<11374, 11376, 1>>, <<11378, 11378, 1>>, <<11381, 11381, 1>>,
      <<11390, 11392, 1>>, <<11394, 11490, 2>>, <<11499, 11499, 1>>,
      <<11501, 11501, 1>>, <<11506, 11506, 1>>, <<42560, 42604, 2>>,
      <<42624, 42650, 2>>, <<42786, 42798, 2>>, <<42802, 42862, 2>>,
      <<42873, 42877, 2>>, <<42878, 42886, 2>>, <<42891, 42891, 1>>,
      <<42893, 42893, 1>>, <<42896, 42896, 1>>, <<42898, 42898, 1>>,
      <<42902, 42922, 2>>, <<42923, 42926, 1>>, <<42928, 42932, 1>>,
      <<42934, 42948, 2>>, <<42949, 42951, 1>>, <<42953, 42953, 1>>,
      <<42955, 42956, 1>>, <<42958, 42972, 2>>, <<42997, 42997, 1>>,
      <<65313, 65338, 1>>, <<66560, 66599, 1>>, <<66736, 66771, 1>>,
      <<66928, 66938, 1>>, <<66940, 66954, 1>>, <<66956, 66962, 1>>,
      <<66964, 66965, 1>>, <<68736, 68786, 1>>, <<68944, 68965, 1>>,
      <<71840, 71871, 1>>, <<93760, 93791, 1>>, <<93856, 93880, 1>>,
      <<119808, 119833, 1>>, <<119860, 119885, 1>>, <<119912, 119937, 1>>,
      <<119964, 119964, 1>>, <<119966, 119967, 1>>, <<119970, 119970, 1>>,
      <<119973, 119974, 1>>, <<119977, 119980, 1>>, <<119982, 119989, 1>>,
      <<120016, 120041, 1>>, <<120068, 120069, 1>>, <<120071, 120074, 1>>,
      <<120077, 120084, 1>>, <<120086, 120092, 1>>, <<120120, 120121, 1>>,
      <<120123, 120126, 1>>, <<120128, 120132, 1>>, <<120134, 120134, 1>>,
      <<120138, 120144, 1>>, <<120172, 120197, 1>>, <<120224, 120249, 1>>,
      <<120276, 120301, 1>>, <<120328, 120353, 1>>, <<120380, 120405, 1>>,
      <<120432, 120457, 1>>, <<120488, 120512, 1>>, <<120546, 120570, 1>>,
      <<120604, 120628, 1>>, <<120662, 120686, 1>>, <<120720, 120744, 1>>,
      <<120778, 120778, 1>>, <<125184, 125217, 1>>, <<127280, 127305, 1>>,
      <<127312, 127337, 1>>, <<127344, 127369, 1>> }

\* char::is_uppercase(): the Unicode Uppercase property
is_uppercase(c) == AsciiUpper(c) \/ (c >= 128 /\ InTable(c, UppercaseTable))

\* the Lowercase property above U+007F (Unicode 17.0): runs <<first, last, step>>
LowercaseTable ==
    { <<170, 170, 1>>, <<181, 181, 1>>, <<186, 186, 1>>, <<223, 246, 1>>,
      <<248, 255, 1>>, <<257, 311, 2>>, <<312, 328, 2>>, <<329, 375, 2>>,
      <<378, 382, 2>>, <<383, 384, 1>>, <<387, 387, 1>>, <<389, 389, 1>>,
      <<392, 392, 1>>, <<396, 397, 1>>, <<402, 402, 1>>, <<405, 405, 1>>,
      <<409, 411, 1>>, <<414, 414, 1>>, <<417, 421, 2>>, <<424, 424, 1>>,
      <<426, 427, 1>>, <<429, 429, 1>>, <<432, 432, 1>>, <<436, 436, 1>>,
      <<438, 438, 1>>, <<441, 442, 1>>, <<445, 447, 1>>, <<454, 454, 1>>,
      <<457, 457, 1>>, <<460, 476, 2>>, <<477, 495, 2>>, <<496, 496, 1>>,
      <<499, 499, 1>>, <<501, 501, 1>>, <<505, 563, 2>>, <<564, 569, 1>>,
      <<572, 572, 1>>, <<575, 576, 1>>, <<578, 578, 1>>, <<583, 591, 2>>,
      <<592, 659, 1>>, <<662, 696, 1>>, <<704, 705, 1>>, <<736, 740, 1>>,
      <<837, 837, 1>>, <<881, 881, 1>>, <<883, 883, 1>>, <<887, 887, 1>>,
      <<890, 893, 1>>, <<912, 912, 1>>, <<940, 974, 1>>, <<976, 977, 1>>,
      <<981, 983, 1>>, <<985, 1007, 2>>, <<1008, 1011, 1>>, <<1013, 1013,
      1>>, <<1016, 1016, 1>>, <<1019, 1020, 1>>, <<1072, 1119, 1>>, <<1121,
      1153, 2>>, <<1163, 1215, 2>>, <<1218, 1230, 2>>, <<1231, 1327, 2>>,
      <<1376, 1416, 1>>, <<4304, 4346, 1>>, <<4348, 4351, 1>>, <<5112, 5117,
      1>>, <<7296, 7304, 1>>, <<7306, 7306, 1>>, <<7424, 7615, 1>>, <<7681,
      7829, 2>>, <<7830, 7837, 1>>, <<7839, 7935, 2>>, <<7936, 7943, 1>>,
      <<7952, 7957, 1>>, <<7968, 7975, 1>>, <<7984, 7991, 1>>, <<8000, 8005,
      1>>, <<8016, 8023, 1>>, <<8032, 8039, 1>>, <<8048, 8061, 1>>, <<8064,
      8071, 1>>, <<8080, 8087, 1>>, <<8096, 8103, 1>>, <<8112, 8116, 1>>,
      <<8118, 8119, 1>>, <<8126, 8126, 1>>, <<8130, 8132, 1>>, <<8134, 8135,
      1>>, <<8144, 8147, 1>>, <<8150, 8151, 1>>, <<8160, 8167, 1>>, <<8178,
      8180, 1>>, <<8182, 8183, 1>>, <<8305, 8305, 1>>, <<8319, 8319, 1>>,
      <<8336, 8348, 1>>, <<8458, 8458, 1>>, <<8462, 8463, 1>>, <<8467, 8467,
      1>>, <<8495, 8495, 1>>, <<8500, 8500, 1>>, <<8505, 8505, 1>>, <<8508,
      8509, 1>>, <<8518, 8521, 1>>, <<8526, 8526, 1>>, <<8560, 8575, 1>>,
      <<8580, 8580, 1>>, <<9424, 9449, 1>>, <<11312, 11359, 1>>, <<11361,
      11361, 1>>, <<11365, 11366, 1>>, <<11368, 11372, 2>>, <<11377, 11377,
      1>>, <<11379, 11380, 1>>, <<11382, 11389, 1>>, <<11393, 11491, 2>>,
      <<11492, 11492, 1>>, <<11500, 11500, 1>>, <<11502, 11502, 1>>,
      <<11507, 11507, 1>>, <<11520, 11557, 1>>, <<11559, 11559, 1>>,
      <<11565, 11565, 1>>, <<42561, 42605, 2>>, <<42625, 42651, 2>>,
      <<42652, 42653, 1>>, <<42787, 42799, 2>>, <<42800, 42801, 1>>,
      <<42803, 42863, 2>>, <<42864, 42872, 1>>, <<42874, 42874, 1>>,
      <<42876, 42876, 1>>, <<42879, 42887, 2>>, <<42892, 42892, 1>>,
      <<42894, 42894, 1>>, <<42897, 42897, 1>>, <<42899, 42901, 1>>,
      <<42903, 42921, 2>>, <<42927, 42927, 1>>, <<42933, 42947, 2>>,
      <<42952, 42952, 1>>, <<42954, 42954, 1>>, <<42957, 42971, 2>>,
      <<42993, 42996, 1>>, <<42998, 42998, 1>>, <<43000, 43002, 1>>,
      <<43824, 43866, 1>>, <<43868, 43881, 1>>, <<43888, 43967, 1>>,
      <<64256, 64262, 1>>, <<64275, 64279, 1>>, <<65345, 65370, 1>>,
      <<66600, 66639, 1>>, <<66776, 66811, 1>>, <<66967, 66977, 1>>,
      <<66979, 66993, 1>>, <<66995, 67001, 1>>, <<67003, 67004, 1>>,
      <<67456, 67456, 1>>, <<67459, 67461, 1>>, <<67463, 67504, 1>>,
      <<67506, 67514, 1>>, <<68800, 68850, 1>>, <<68976, 68997, 1>>,
      <<71872, 71903, 1>>, <<93792, 93823, 1>>, <<93883, 93907, 1>>,
      <<119834, 119859, 1>>, <<119886, 119892, 1>>, <<119894, 119911, 1>>,
      <<119938, 119963, 1>>, <<119990, 119993, 1>>, <<119995, 119995, 1>>,
      <<119997, 120003, 1>>, <<120005, 120015, 1>>, <<120042, 120067, 1>>,
      <<120094, 120119, 1>>, <<120146, 120171, 1>>, <<120198, 120223, 1>>,
      <<120250, 120275, 1>>, <<120302, 120327, 1>>, <<120354, 120379, 1>>,
      <<120406, 120431, 1>>, <<120458, 120485, 1>>, <<120514, 120538, 1>>,
      <<120540, 120545, 1>>, <<120572, 120596, 1>>, <<120598, 120603, 1>>,
      <<120630, 120654, 1>>, <<120656, 120661, 1>>, <<120688, 120712, 1>>,
      <<120714, 120719, 1>>, <<120746, 120770, 1>>, <<120772, 120777, 1>>,
      <<120779, 120779, 1>>, <<122624, 122633, 1>>, <<122635, 122654, 1>>,
      <<122661, 122666, 1>>, <<122928, 122989, 1>>, <<125218, 125251, 1>> }

\* char::is_lowercase(): the Unicode Lowercase property
is_lowercase(c) == AsciiLower(c) \/ (c >= 128 /\ InTable(c, LowercaseTable))

\* the Cased property above U+007F (Unicode 17.0): runs <<first, last, step>>
CasedTable ==
    { <<170, 170, 1>>, <<181, 181, 1>>, <<186, 186, 1>>, <<192, 214, 1>>,
      <<216, 246, 1>>, <<248, 442, 1>>, <<444, 447, 1>>, <<452, 659, 1>>,
      <<662, 696, 1>>, <<704, 705, 1>>, <<736, 740, 1>>, <<837, 837, 1>>,
      <<880, 883, 1>>, <<886, 887, 1>>, <<890, 893, 1>>, <<895, 895, 1>>,
      <<902, 902, 1>>, <<904, 906, 1>>, <<908, 908, 1>>, <<910, 929, 1>>,
      <<931, 1013, 1>>, <<1015, 1153, 1>>, <<1162, 1327, 1>>, <<1329, 1366,
      1>>, <<1376, 1416, 1>>, <<4256, 4293, 1>>, <<4295, 4295, 1>>, <<4301,
      4301, 1>>, <<4304, 4346, 1>>, <<4348, 4351, 1>>, <<5024, 5109, 1>>,
      <<5112, 5117, 1>>, <<7296, 7306, 1>>, <<7312, 7354, 1>>, <<7357, 7359,
      1>>, <<7424, 7615, 1>>, <<7680, 7957, 1>>, <<7960, 7965, 1>>, <<7968,
      8005, 1>>, <<8008, 8013, 1>>, <<8016, 8023, 1>>, <<8025, 8031, 2>>,
      <<8032, 8061, 1>>, <<8064, 8116, 1>>, <<8118, 8124, 1>>, <<8126, 8126,
      1>>, <<8130, 8132, 1>>, <<8134, 8140, 1>>, <<8144, 8147, 1>>, <<8150,
      8155, 1>>, <<8160, 8172, 1>>, <<8178, 8180, 1>>, <<8182, 8188, 1>>,
      <<8305, 8305, 1>>, <<8319, 8319, 1>>, <<8336, 8348, 1>>, <<8450, 8450,
      1>>, <<8455, 8455, 1>>, <<8458, 8467, 1>>, <<8469, 8469, 1>>, <<8473,
      8477, 1>>, <<8484, 8490, 2>>, <<8491, 8493, 1>>, <<8495, 8500, 1>>,
      <<8505, 8505, 1>>, <<8508, 8511, 1>>, <<8517, 8521, 1>>, <<8526, 8526,
      1>>, <<8544, 8575, 1>>, <<8579, 8580, 1>>, <<9398, 9449, 1>>, <<11264,
      11492, 1>>, <<11499, 11502, 1>>, <<11506, 11507, 1>>, <<11520, 11557,
      1>>, <<11559, 11559, 1>>, <<11565, 11565, 1>>, <<42560, 42605, 1>>,
      <<42624, 42653, 1>>, <<42786, 42887, 1>>, <<42891, 42894, 1>>,
      <<42896, 42972, 1>>, <<42993, 42998, 1>>, <<43000, 43002, 1>>,
      <<43824, 43866, 1>>, <<43868, 43881, 1>>, <<43888, 43967, 1>>,
      <<64256, 64262, 1>>, <<64275, 64279, 1>>, <<65313, 65338, 1>>,
      <<65345, 65370, 1>>, <<66560, 66639, 1>>, <<66736, 66771, 1>>,
      <<66776, 66811, 1>>, <<66928, 66938, 1>>, <<66940, 66954, 1>>,
      <<66956, 66962, 1>>, <<66964, 66965, 1>>, <<66967, 66977, 1>>,
      <<66979, 66993, 1>>, <<66995, 67001, 1>>, <<67003, 67004, 1>>,
      <<67456, 67456, 1>>, <<67459, 67461, 1>>, <<67463, 67504, 1>>,
      <<67506, 67514, 1>>, <<68736, 68786, 1>>, <<68800, 68850, 1>>,
      <<68944, 68965, 1>>, <<68976, 68997, 1>>, <<71840, 71903, 1>>,
      <<93760, 93823, 1>>, <<93856, 93880, 1>>, <<93883, 93907, 1>>,
      <<119808, 119892, 1>>, <<119894, 119964, 1>>, <<119966, 119967, 1>>,
      <<119970, 119970, 1>>, <<119973, 119974, 1>>, <<119977, 119980, 1>>,
      <<119982, 119993, 1>>, <<119995, 119995, 1>>, <<119997, 120003, 1>>,
      <<120005, 120069, 1>>, <<120071, 120074, 1>>, <<120077, 120084, 1>>,
      <<120086, 120092, 1>>, <<120094, 120121, 1>>, <<120123, 120126, 1>>,
      <<120128, 120132, 1>>, <<120134, 120134, 1>>, <<120138, 120144, 1>>,
      <<120146, 120485, 1>>, <<120488, 120512, 1>>, <<120514, 120538, 1>>,
      <<120540, 120570, 1>>, <<120572, 120596, 1>>, <<120598, 120628, 1>>,
      <<120630, 120654, 1>>, <<120656, 120686, 1>>, <<120688, 120712, 1>>,
      <<120714, 120744, 1>>, <<120746, 120770, 1>>, <<120772, 120779, 1>>,
      <<122624, 122633, 1>>, <<122635, 122654, 1>>, <<122661, 122666, 1>>,
      <<122928, 122989, 1>>, <<125184, 125251, 1>>, <<127280, 127305, 1>>,
      <<127312, 127337, 1>>, <<127344, 127369, 1>> }

\* core::unicode::Cased
Cased(c) == AsciiAlpha(c) \/ (c >= 128 /\ InTable(c, CasedTable))

\* the Case_Ignorable property above U+007F (Unicode 17.0): runs <<first, last, step>>
CaseIgnorableTable ==
    { <<168, 168, 1>>, <<173, 173, 1>>, <<175, 175, 1>>, <<180, 180, 1>>,
      <<183, 184, 1>>, <<688, 879, 1>>, <<884, 885, 1>>, <<890, 890, 1>>,
      <<900, 901, 1>>, <<903, 903, 1>>, <<1155, 1161, 1>>, <<1369, 1369,
      1>>, <<1375, 1375, 1>>, <<1425, 1469, 1>>, <<1471, 1471, 1>>, <<1473,
      1474, 1>>, <<1476, 1477, 1>>, <<1479, 1479, 1>>, <<1524, 1524, 1>>,
      <<1536, 1541, 1>>, <<1552, 1562, 1>>, <<1564, 1564, 1>>, <<1600, 1600,
      1>>, <<1611, 1631, 1>>, <<1648, 1648, 1>>, <<1750, 1757, 1>>, <<1759,
      1768, 1>>, <<1770, 1773, 1>>, <<1807, 1807, 1>>, <<1809, 1809, 1>>,
      <<1840, 1866, 1>>, <<1958, 1968, 1>>, <<2027, 2037, 1>>, <<2042, 2042,
      1>>, <<2045, 2045, 1>>, <<2070, 2093, 1>>, <<2137, 2139, 1>>, <<2184,
      2184, 1>>, <<2192, 2193, 1>>, <<2199, 2207, 1>>, <<2249, 2306, 1>>,
      <<2362, 2362, 1>>, <<2364, 2364, 1>>, <<2369, 2376, 1>>, <<2381, 2381,
      1>>, <<2385, 2391, 1>>, <<2402, 2403, 1>>, <<2417, 2417, 1>>, <<2433,
      2433, 1>>, <<2492, 2492, 1>>, <<2497, 2500, 1>>, <<2509, 2509, 1>>,
      <<2530, 2531, 1>>, <<2558, 2558, 1>>, <<2561, 2562, 1>>, <<2620, 2620,
      1>>, <<2625, 2626, 1>>, <<2631, 2632, 1>>, <<2635, 2637, 1>>, <<2641,
      2641, 1>>, <<2672, 2673, 1>>, <<2677, 2677, 1>>, <<2689, 2690, 1>>,
      <<2748, 2748, 1>>, <<2753, 2757, 1>>, <<2759, 2760, 1>>, <<2765, 2765,
      1>>, <<2786, 2787, 1>>, <<2810, 2815, 1>>, <<2817, 2817, 1>>, <<2876,
      2876, 1>>, <<2879, 2879, 1>>, <<2881, 2884, 1>>, <<2893, 2893, 1>>,
      <<2901, 2902, 1>>, <<2914, 2915, 1>>, <<2946, 2946, 1>>, <<3008, 3008,
      1>>, <<3021, 3021, 1>>, <<3072, 3072, 1>>, <<3076, 3076, 1>>, <<3132,
      3132, 1>>, <<3134, 3136, 1>>, <<3142, 3144, 1>>, <<3146, 3149, 1>>,
      <<3157, 3158, 1>>, <<3170, 3171, 1>>, <<3201, 3201, 1>>, <<3260, 3260,
      1>>, <<3263, 3263, 1>>, <<3270, 3270, 1>>, <<3276, 3277, 1>>, <<3298,
      3299, 1>>, <<3328, 3329, 1>>, <<3387, 3388, 1>>, <<3393, 3396, 1>>,
      <<3405, 3405, 1>>, <<3426, 3427, 1>>, <<3457, 3457, 1>>, <<3530, 3530,
      1>>, <<3538, 3540, 1>>, <<3542, 3542, 1>>, <<3633, 3633, 1>>, <<3636,
      3642, 1>>, <<3654, 3662, 1>>, <<3761, 3761, 1>>, <<3764, 3772, 1>>,
      <<3782, 3782, 1>>, <<3784, 3790, 1>>, <<3864, 3865, 1>>, <<3893, 3897,
      2>>, <<3953, 3966, 1>>, <<3968, 3972, 1>>, <<3974, 3975, 1>>, <<3981,
      3991, 1>>, <<3993, 4028, 1>>, <<4038, 4038, 1>>, <<4141, 4144, 1>>,
      <<4146, 4151, 1>>, <<4153, 4154, 1>>, <<4157, 4158, 1>>, <<4184, 4185,
      1>>, <<4190, 4192, 1>>, <<4209, 4212, 1>>, <<4226, 4226, 1>>, <<4229,
      4230, 1>>, <<4237, 4237, 1>>, <<4253, 4253, 1>>, <<4348, 4348, 1>>,
      <<4957, 4959, 1>>, <<5906, 5908, 1>>, <<5938, 5939, 1>>, <<5970, 5971,
      1>>, <<6002, 6003, 1>>, <<6068, 6069, 1>>, <<6071, 6077, 1>>, <<6086,
      6086, 1>>, <<6089, 6099, 1>>, <<6103, 6103, 1>>, <<6109, 6109, 1>>,
      <<6155, 6159, 1>>, <<6211, 6211, 1>>, <<6277, 6278, 1>>, <<6313, 6313,
      1>>, <<6432, 6434, 1>>, <<6439, 6440, 1>>, <<6450, 6450, 1>>, <<6457,
      6459, 1>>, <<6679, 6680, 1>>, <<6683, 6683, 1>>, <<6742, 6742, 1>>,
      <<6744, 6750, 1>>, <<6752, 6752, 1>>, <<6754, 6754, 1>>, <<6757, 6764,
      1>>, <<6771, 6780, 1>>, <<6783, 6783, 1>>, <<6823, 6823, 1>>, <<6832,
      6877, 1>>, <<6880, 6891, 1>>, <<6912, 6915, 1>>, <<6964, 6964, 1>>,
      <<6966, 6970, 1>>, <<6972, 6972, 1>>, <<6978, 6978, 1>>, <<7019, 7027,
      1>>, <<7040, 7041, 1>>, <<7074, 7077, 1>>, <<7080, 7081, 1>>, <<7083,
      7085, 1>>, <<7142, 7142, 1>>, <<7144, 7145, 1>>, <<7149, 7149, 1>>,
      <<7151, 7153, 1>>, <<7212, 7219, 1>>, <<7222, 7223, 1>>, <<7288, 7293,
      1>>, <<7376, 7378, 1>>, <<7380, 7392, 1>>, <<7394, 7400, 1>>, <<7405,
      7405, 1>>, <<7412, 7412, 1>>, <<7416, 7417, 1>>, <<7468, 7530, 1>>,
      <<7544, 7544, 1>>, <<7579, 7679, 1>>, <<8125, 8125, 1>>, <<8127, 8129,
      1>>, <<8141, 8143, 1>>, <<8157, 8159, 1>>, <<8173, 8175, 1>>, <<8189,
      8190, 1>>, <<8203, 8207, 1>>, <<8216, 8217, 1>>, <<8228, 8228, 1>>,
      <<8231, 8231, 1>>, <<8234, 8238, 1>>, <<8288, 8292, 1>>, <<8294, 8303,
      1>>, <<8305, 8305, 1>>, <<8319, 8319, 1>>, <<8336, 8348, 1>>, <<8400,
      8432, 1>>, <<11388, 11389, 1>>, <<11503, 11505, 1>>, <<11631, 11631,
      1>>, <<11647, 11647, 1>>, <<11744, 11775, 1>>, <<11823, 11823, 1>>,
      <<12293, 12293, 1>>, <<12330, 12333, 1>>, <<12337, 12341, 1>>,
      <<12347, 12347, 1>>, <<12441, 12446, 1>>, <<12540, 12542, 1>>,
      <<40981, 40981, 1>>, <<42232, 42237, 1>>, <<42508, 42508, 1>>,
      <<42607, 42610, 1>>, <<42612, 42621, 1>>, <<42623, 42623, 1>>,
      <<42652, 42655, 1>>, <<42736, 42737, 1>>, <<42752, 42785, 1>>,
      <<42864, 42864, 1>>, <<42888, 42890, 1>>, <<42993, 42996, 1>>,
      <<43000, 43001, 1>>, <<43010, 43010, 1>>, <<43014, 43014, 1>>,
      <<43019, 43019, 1>>, <<43045, 43046, 1>>, <<43052, 43052, 1>>,
      <<43204, 43205, 1>>, <<43232, 43249, 1>>, <<43263, 43263, 1>>,
      <<43302, 43309, 1>>, <<43335, 43345, 1>>, <<43392, 43394, 1>>,
      <<43443, 43443, 1>>, <<43446, 43449, 1>>, <<43452, 43453, 1>>,
      <<43471, 43471, 1>>, <<43493, 43494, 1>>, <<43561, 43566, 1>>,
      <<43569, 43570, 1>>, <<43573, 43574, 1>>, <<43587, 43587, 1>>,
      <<43596, 43596, 1>>, <<43632, 43632, 1>>, <<43644, 43644, 1>>,
      <<43696, 43696, 1>>, <<43698, 43700, 1>>, <<43703, 43704, 1>>,
      <<43710, 43711, 1>>, <<43713, 43713, 1>>, <<43741, 43741, 1>>,
      <<43756, 43757, 1>>, <<43763, 43764, 1>>, <<43766, 43766, 1>>,
      <<43867, 43871, 1>>, <<43881, 43883, 1>>, <<44005, 44005, 1>>,
      <<44008, 44008, 1>>, <<44013, 44013, 1>>, <<64286, 64286, 1>>,
      <<64434, 64450, 1>>, <<65024, 65039, 1>>, <<65043, 65043, 1>>,
      <<65056, 65071, 1>>, <<65106, 65106, 1>>, <<65109, 65109, 1>>,
      <<65279, 65279, 1>>, <<65287, 65287, 1>>, <<65294, 65294, 1>>,
      <<65306, 65306, 1>>, <<65342, 65342, 1>>, <<65344, 65344, 1>>,
      <<65392, 65392, 1>>, <<65438, 65439, 1>>, <<65507, 65507, 1>>,
      <<65529, 65531, 1>>, <<66045, 66045, 1>>, <<66272, 66272, 1>>,
      <<66422, 66426, 1>>, <<67456, 67461, 1>>, <<67463, 67504, 1>>,
      <<67506, 67514, 1>>, <<68097, 68099, 1>>, <<68101, 68102, 1>>,
      <<68108, 68111, 1>>, <<68152, 68154, 1>>, <<68159, 68159, 1>>,
      <<68325, 68326, 1>>, <<68900, 68903, 1>>, <<68942, 68942, 1>>,
      <<68969, 68973, 1>>, <<68975, 68975, 1>>, <<69291, 69292, 1>>,
      <<69317, 69317, 1>>, <<69370, 69375, 1>>, <<69446, 69456, 1>>,
      <<69506, 69509, 1>>, <<69633, 69633, 1>>, <<69688, 69702, 1>>,
      <<69744, 69744, 1>>, <<69747, 69748, 1>>, <<69759, 69761, 1>>,
      <<69811, 69814, 1>>, <<69817, 69818, 1>>, <<69821, 69821, 1>>,
      <<69826, 69826, 1>>, <<69837, 69837, 1>>, <<69888, 69890, 1>>,
      <<69927, 69931, 1>>, <<69933, 69940, 1>>, <<70003, 70003, 1>>,
      <<70016, 70017, 1>>, <<70070, 70078, 1>>, <<70089, 70092, 1>>,
      <<70095, 70095, 1>>, <<70191, 70193, 1>>, <<70196, 70196, 1>>,
      <<70198, 70199, 1>>, <<70206, 70206, 1>>, <<70209, 70209, 1>>,
      <<70367, 70367, 1>>, <<70371, 70378, 1>>, <<70400, 70401, 1>>,
      <<70459, 70460, 1>>, <<70464, 70464, 1>>, <<70502, 70508, 1>>,
      <<70512, 70516, 1>>, <<70587, 70592, 1>>, <<70606, 70610, 2>>,
      <<70625, 70626, 1>>, <<70712, 70719, 1>>, <<70722, 70724, 1>>,
      <<70726, 70726, 1>>, <<70750, 70750, 1>>, <<70835, 70840, 1>>,
      <<70842, 70842, 1>>, <<70847, 70848, 1>>, <<70850, 70851, 1>>,
      <<71090, 71093, 1>>, <<71100, 71101, 1>>, <<71103, 71104, 1>>,
      <<71132, 71133, 1>>, <<71219, 71226, 1>>, <<71229, 71229, 1>>,
      <<71231, 71232, 1>>, <<71339, 71339, 1>>, <<71341, 71341, 1>>,
      <<71344, 71349, 1>>, <<71351, 71351, 1>>, <<71453, 71453, 1>>,
      <<71455, 71455, 1>>, <<71458, 71461, 1>>, <<71463, 71467, 1>>,
      <<71727, 71735, 1>>, <<71737, 71738, 1>>, <<71995, 71996, 1>>,
      <<71998, 71998, 1>>, <<72003, 72003, 1>>, <<72148, 72151, 1>>,
      <<72154, 72155, 1>>, <<72160, 72160, 1>>, <<72193, 72202, 1>>,
      <<72243, 72248, 1>>, <<72251, 72254, 1>>, <<72263, 72263, 1>>,
      <<72273, 72278, 1>>, <<72281, 72283, 1>>, <<72330, 72342, 1>>,
      <<72344, 72345, 1>>, <<72544, 72544, 1>>, <<72546, 72548, 1>>,
      <<72550, 72550, 1>>, <<72752, 72758, 1>>, <<72760, 72765, 1>>,
      <<72767, 72767, 1>>, <<72850, 72871, 1>>, <<72874, 72880, 1>>,
      <<72882, 72883, 1>>, <<72885, 72886, 1>>, <<73009, 73014, 1>>,
      <<73018, 73018, 1>>, <<73020, 73021, 1>>, <<73023, 73029, 1>>,
      <<73031, 73031, 1>>, <<73104, 73105, 1>>, <<73109, 73109, 1>>,
      <<73111, 73111, 1>>, <<73177, 73177, 1>>, <<73459, 73460, 1>>,
      <<73472, 73473, 1>>, <<73526, 73530, 1>>, <<73536, 73536, 1>>,
      <<73538, 73538, 1>>, <<73562, 73562, 1>>, <<78896, 78912, 1>>,
      <<78919, 78933, 1>>, <<90398, 90409, 1>>, <<90413, 90415, 1>>,
      <<92912, 92916, 1>>, <<92976, 92982, 1>>, <<92992, 92995, 1>>,
      <<93504, 93506, 1>>, <<93547, 93548, 1>>, <<94031, 94031, 1>>,
      <<94095, 94111, 1>>, <<94176, 94177, 1>>, <<94179, 94180, 1>>,
      <<94194, 94195, 1>>, <<110576, 110579, 1>>, <<110581, 110587, 1>>,
      <<110589, 110590, 1>>, <<113821, 113822, 1>>, <<113824, 113827, 1>>,
      <<118528, 118573, 1>>, <<118576, 118598, 1>>, <<119143, 119145, 1>>,
      <<119155, 119170, 1>>, <<119173, 119179, 1>>, <<119210, 119213, 1>>,
      <<119362, 119364, 1>>, <<121344, 121398, 1>>, <<121403, 121452, 1>>,
      <<121461, 121461, 1>>, <<121476, 121476, 1>>, <<121499, 121503, 1>>,
      <<121505, 121519, 1>>, <<122880, 122886, 1>>, <<122888, 122904, 1>>,
      <<122907, 122913, 1>>, <<122915, 122916, 1>>, <<122918, 122922, 1>>,
      <<122928, 122989, 1>>, <<123023, 123023, 1>>, <<123184, 123197, 1>>,
      <<123566, 123566, 1>>, <<123628, 123631, 1>>, <<124139, 124143, 1>>,
      <<124398, 124399, 1>>, <<124643, 124643, 1>>, <<124646, 124646, 1>>,
      <<124654, 124655, 1>>, <<124661, 124661, 1>>, <<124671, 124671, 1>>,
      <<125136, 125142, 1>>, <<125252, 125259, 1>>, <<127995, 127999, 1>>,
      <<917505, 917505, 1>>, <<917536, 917631, 1>>, <<917760, 917999, 1>> }

\* core::unicode::Case_Ignorable
Case_Ignorable(c) == c \in {39, 46, 58, 94, 96} \/ (c >= 128 /\ InTable(c, CaseIgnorableTable))

\* char::is_whitespace() and the regex class \s: the Unicode White_Space property
is_whitespace(c) ==
    \/ c \in 9..13 \/ c = 32 \/ c = 133 \/ c = 160 \/ c = 5760
    \/ c \in 8192..8202 \/ c \in {8232, 8233, 8239, 8287, 12288}

\* the general category Nd above U+007F (Unicode 16.0, the tables of the
\* regex crate): runs <<first, last, step>>
DecimalDigitTable ==
    { <<1632, 1641, 1>>, <<1776, 1785, 1>>, <<1984, 1993, 1>>, <<2406, 2415,
      1>>, <<2534, 2543, 1>>, <<2662, 2671, 1>>, <<2790, 2799, 1>>, <<2918,
      2927, 1>>, <<3046, 3055, 1>>, <<3174, 3183, 1>>, <<3302, 3311, 1>>,
      <<3430, 3439, 1>>, <<3558, 3567, 1>>, <<3664, 3673, 1>>, <<3792, 3801,
      1>>, <<3872, 3881, 1>>, <<4160, 4169, 1>>, <<4240, 4249, 1>>, <<6112,
      6121, 1>>, <<6160, 6169, 1>>, <<6470, 6479, 1>>, <<6608, 6617, 1>>,
      <<6784, 6793, 1>>, <<6800, 6809, 1>>, <<6992, 7001, 1>>, <<7088, 7097,
      1>>, <<7232, 7241, 1>>, <<7248, 7257, 1>>, <<42528, 42537, 1>>,
      <<43216, 43225, 1>>, <<43264, 43273, 1>>, <<43472, 43481, 1>>,
      <<43504, 43513, 1>>, <<43600, 43609, 1>>, <<44016, 44025, 1>>,
      <<65296, 65305, 1>>, <<66720, 66729, 1>>, <<68912, 68921, 1>>,
      <<68928, 68937, 1>>, <<69734, 69743, 1>>, <<69872, 69881, 1>>,
      <<69942, 69951, 1>>, <<70096, 70105, 1>>, <<70384, 70393, 1>>,
      <<70736, 70745, 1>>, <<70864, 70873, 1>>, <<71248, 71257, 1>>,
      <<71360, 71369, 1>>, <<71376, 71395, 1>>, <<71472, 71481, 1>>,
      <<71904, 71913, 1>>, <<72016, 72025, 1>>, <<72688, 72697, 1>>,
      <<72784, 72793, 1>>, <<73040, 73049, 1>>, <<73120, 73129, 1>>,
      <<73552, 73561, 1>>, <<90416, 90425, 1>>, <<92768, 92777, 1>>,
      <<92864, 92873, 1>>, <<93008, 93017, 1>>, <<93552, 93561, 1>>,
      <<118000, 118009, 1>>, <<120782, 120831, 1>>, <<123200, 123209, 1>>,
      <<123632, 123641, 1>>, <<124144, 124153, 1>>, <<124401, 124410, 1>>,
      <<125264, 125273, 1>>, <<130032, 130041, 1>> }

\* the regex class \d: Unicode decimal digits (Nd); the regex crate is
\* Unicode-aware by default
RegexDigit(c) == c \in 48..57 \/ (c >= 128 /\ InTable(c, DecimalDigitTable))

\* the one-character lower-case mappings above U+007F (Unicode 17.0): runs
\* <<first, last, step, offset>>; a character of the run maps to itself + offset
LowerMapTable ==
    { <<192, 214, 1, 32>>, <<216, 222, 1, 32>>, <<256, 302, 2, 1>>, <<306,
      310, 2, 1>>, <<313, 327, 2, 1>>, <<330, 374, 2, 1>>, <<376, 376, 1,
      -121>>, <<377, 381, 2, 1>>, <<385, 385, 1, 210>>, <<386, 386, 1, 1>>,
      <<388, 388, 1, 1>>, <<390, 390, 1, 206>>, <<391, 391, 1, 1>>, <<393,
      394, 1, 205>>, <<395, 395, 1, 1>>, <<398, 398, 1, 79>>, <<399, 399, 1,
      202>>, <<400, 400, 1, 203>>, <<401, 401, 1, 1>>, <<403, 403, 1, 205>>,
      <<404, 404, 1, 207>>, <<406, 406, 1, 211>>, <<407, 407, 1, 209>>,
      <<408, 408, 1, 1>>, <<412, 412, 1, 211>>, <<413, 413, 1, 213>>, <<415,
      415, 1, 214>>, <<416, 420, 2, 1>>, <<422, 422, 1, 218>>, <<423, 423,
      1, 1>>, <<425, 425, 1, 218>>, <<428, 428, 1, 1>>, <<430, 430, 1,
      218>>, <<431, 431, 1, 1>>, <<433, 434, 1, 217>>, <<435, 435, 1, 1>>,
      <<437, 437, 1, 1>>, <<439, 439, 1, 219>>, <<440, 440, 1, 1>>, <<444,
      444, 1, 1>>, <<452, 452, 1, 2>>, <<453, 453, 1, 1>>, <<455, 455, 1,
      2>>, <<456, 456, 1, 1>>, <<458, 458, 1, 2>>, <<459, 475, 2, 1>>,
      <<478, 494, 2, 1>>, <<497, 497, 1, 2>>, <<498, 498, 1, 1>>, <<500,
      500, 1, 1>>, <<502, 502, 1, -97>>, <<503, 503, 1, -56>>, <<504, 542,
      2, 1>>, <<544, 544, 1, -130>>, <<546, 562, 2, 1>>, <<570, 570, 1,
      10795>>, <<571, 571, 1, 1>>, <<573, 573, 1, -163>>, <<574, 574, 1,
      10792>>, <<577, 577, 1, 1>>, <<579, 579, 1, -195>>, <<580, 580, 1,
      69>>, <<581, 581, 1, 71>>, <<582, 590, 2, 1>>, <<880, 880, 1, 1>>,
      <<882, 882, 1, 1>>, <<886, 886, 1, 1>>, <<895, 895, 1, 116>>, <<902,
      902, 1, 38>>, <<904, 906, 1, 37>>, <<908, 908, 1, 64>>, <<910, 911, 1,
      63>>, <<913, 929, 1, 32>>, <<931, 939, 1, 32>>, <<975, 975, 1, 8>>,
      <<984, 1006, 2, 1>>, <<1012, 1012, 1, -60>>, <<1015, 1015, 1, 1>>,
      <<1017, 1017, 1, -7>>, <<1018, 1018, 1, 1>>, <<1021, 1023, 1, -130>>,
      <<1024, 1039, 1, 80>>, <<1040, 1071, 1, 32>>, <<1120, 1152, 2, 1>>,
      <<1162, 1214, 2, 1>>, <<1216, 1216, 1, 15>>, <<1217, 1229, 2, 1>>,
      <<1232, 1326, 2, 1>>, <<1329, 1366, 1, 48>>, <<4256, 4293, 1, 7264>>,
      <<4295, 4295, 1, 7264>>, <<4301, 4301, 1, 7264>>, <<5024, 5103, 1,
      38864>>, <<5104, 5109, 1, 8>>, <<7305, 7305, 1, 1>>, <<7312, 7354, 1,
      -3008>>, <<7357, 7359, 1, -3008>>, <<7680, 7828, 2, 1>>, <<7838, 7838,
      1, -7615>>, <<7840, 7934, 2, 1>>, <<7944, 7951, 1, -8>>, <<7960, 7965,
      1, -8>>, <<7976, 7983, 1, -8>>, <<7992, 7999, 1, -8>>, <<8008, 8013,
      1, -8>>, <<8025, 8031, 2, -8>>, <<8040, 8047, 1, -8>>, <<8072, 8079,
      1, -8>>, <<8088, 8095, 1, -8>>, <<8104, 8111, 1, -8>>, <<8120, 8121,
      1, -8>>, <<8122, 8123, 1, -74>>, <<8124, 8124, 1, -9>>, <<8136, 8139,
      1, -86>>, <<8140, 8140, 1, -9>>, <<8152, 8153, 1, -8>>, <<8154, 8155,
      1, -100>>, <<8168, 8169, 1, -8>>, <<8170, 8171, 1, -112>>, <<8172,
      8172, 1, -7>>, <<8184, 8185, 1, -128>>, <<8186, 8187, 1, -126>>,
      <<8188, 8188, 1, -9>>, <<8486, 8486, 1, -7517>>, <<8490, 8490, 1,
      -8383>>, <<8491, 8491, 1, -8262>>, <<8498, 8498, 1, 28>>, <<8544,
      8559, 1, 16>>, <<8579, 8579, 1, 1>>, <<9398, 9423, 1, 26>>, <<11264,
      11311, 1, 48>>, <<11360, 11360, 1, 1>>, <<11362, 11362, 1, -10743>>,
      <<11363, 11363, 1, -3814>>, <<11364, 11364, 1, -10727>>, <<11367,
      11371, 2, 1>>, <<11373, 11373, 1, -10780>>, <<11374, 11374, 1,
      -10749>>, <<11375, 11375, 1, -10783>>, <<11376, 11376, 1, -10782>>,
      <<11378, 11378, 1, 1>>, <<11381, 11381, 1, 1>>, <<11390, 11391, 1,
      -10815>>, <<11392, 11490, 2, 1>>, <<11499, 11499, 1, 1>>, <<11501,
      11501, 1, 1>>, <<11506, 11506, 1, 1>>, <<42560, 42604, 2, 1>>,
      <<42624, 42650, 2, 1>>, <<42786, 42798, 2, 1>>, <<42802, 42862, 2,
      1>>, <<42873, 42873, 1, 1>>, <<42875, 42875, 1, 1>>, <<42877, 42877,
      1, -35332>>, <<42878, 42886, 2, 1>>, <<42891, 42891, 1, 1>>, <<42893,
      42893, 1, -42280>>, <<42896, 42896, 1, 1>>, <<42898, 42898, 1, 1>>,
      <<42902, 42920, 2, 1>>, <<42922, 42922, 1, -42308>>, <<42923, 42923,
      1, -42319>>, <<42924, 42924, 1, -42315>>, <<42925, 42925, 1, -42305>>,
      <<42926, 42926, 1, -42308>>, <<42928, 42928, 1, -42258>>, <<42929,
      42929, 1, -42282>>, <<42930, 42930, 1, -42261>>, <<42931, 42931, 1,
      928>>, <<42932, 42946, 2, 1>>, <<42948, 42948, 1, -48>>, <<42949,
      42949, 1, -42307>>, <<42950, 42950, 1, -35384>>, <<42951, 42951, 1,
      1>>, <<42953, 42953, 1, 1>>, <<42955, 42955, 1, -42343>>, <<42956,
      42970, 2, 1>>, <<42972, 42972, 1, -42561>>, <<42997, 42997, 1, 1>>,
      <<65313, 65338, 1, 32>>, <<66560, 66599, 1, 40>>, <<66736, 66771, 1,
      40>>, <<66928, 66938, 1, 39>>, <<66940, 66954, 1, 39>>, <<66956,
      66962, 1, 39>>, <<66964, 66965, 1, 39>>, <<68736, 68786, 1, 64>>,
      <<68944, 68965, 1, 32>>, <<71840, 71871, 1, 32>>, <<93760, 93791, 1,
      32>>, <<93856, 93880, 1, 27>>, <<125184, 125217, 1, 34>> }

\* char::to_lowercase(): the lower-case mapping of one character (a string:
\* U+0130 maps to two characters)
CharToLower(c) ==
    IF c < 128 THEN (IF AsciiUpper(c) THEN <<c + 32>> ELSE <<c>>)
    ELSE IF c = 304 THEN <<105, 775>>
    ELSE IF InTable(c, LowerMapTable)
         THEN LET r == CHOOSE r \in LowerMapTable :
                           c >= r[1] /\ c <= r[2] /\ (c - r[1]) % r[3] = 0
              IN  <<c + r[4]>>
    ELSE <<c>>

\* case_ignorable_then_cased: the first character of s that is not
\* Case_Ignorable exists and is Cased
case_ignorable_then_cased(s) ==
    \E i \in 1..Len(s) :
        /\ ~ Case_Ignorable(s[i])
        /\ Cased(s[i])
        /\ \A j \in 1..(i - 1) : Case_Ignorable(s[j])

\* the string s read backwards
Reversed(s) == [i \in 1..Len(s) |-> s[Len(s) + 1 - i]]

\* map_uppercase_sigma: U+03A3 at position i maps to U+03C2 at the end of a
\* word and to U+03C3 elsewhere
map_uppercase_sigma(s, i) ==
    IF /\ case_ignorable_then_cased(Reversed(SubSeq(s, 1, i - 1)))
       /\ ~ case_ignorable_then_cased(SubSeq(s, i + 1, Len(s)))
    THEN 962 ELSE 963

RECURSIVE LowerFrom(_, _)
\* the lower-cased characters of s from position i on
LowerFrom(s, i) ==
    IF i > Len(s) THEN <<>>
    ELSE (IF s[i] = 931 THEN <<map_uppercase_sigma(s, i)>> ELSE CharToLower(s[i]))
         \o LowerFrom(s, i + 1)

\* str::to_lowercase()
to_lowercase(s) == LowerFrom(s, 1)

RECURSIVE split_whitespace(_)
\* str::split_whitespace(): the maximal runs of non-whitespace characters
split_whitespace(s) ==
    IF s = <<>> THEN <<>>
    ELSE IF is_whitespace(Head(s)) THEN split_whitespace(Tail(s))
    ELSE LET stops == { i \in 1..Len(s) : is_whitespace(s[i]) }
             e == IF stops = {} THEN Len(s) + 1
                  ELSE CHOOSE i \in stops : \A j \in stops : i <= j
         IN  <<SubSeq(s, 1, e - 1)>> \o split_whitespace(SubSeq(s, e, Len(s)))

---------------------------------------------------------------------------
(* Results: Result<(), AppError>, Result<String, AppError>, Result<bool, AppError> *)

NoResult == [tag |-> "None", msg |-> "", value |-> <<>>, flag |-> FALSE]
Ok == [tag |-> "Ok", msg |-> "", value |-> <<>>, flag |-> FALSE]
OkString(s) == [tag |-> "Ok", msg |-> "", value |-> s, flag |-> FALSE]
OkBool(b) == [tag |-> "Ok", msg |-> "", value |-> <<>>, flag |-> b]
ValidationError(m) == [tag |-> "ValidationError", msg |-> m, value |-> <<>>, flag |-> FALSE]

---------------------------------------------------------------------------
(* validate_password *)

MinPasswordLen == 8

MsgPwShort == "Password must be at least 8 characters long"
MsgPwDigit == "Password must contain at least one digit"
MsgPwUpper == "Password must contain at least one uppercase letter"
MsgPwLower == "Password must contain at least one lowercase letter"

validate_password(password) ==
    IF len(password) < MinPasswordLen THEN ValidationError(MsgPwShort)
    ELSE IF ~ \E i \in 1..Len(password) : is_digit(password[i])
         THEN ValidationError(MsgPwDigit)
    ELSE IF ~ \E i \in 1..Len(password) : is_uppercase(password[i])
         THEN ValidationError(MsgPwUpper)
    ELSE IF ~ \E i \in 1..Len(password) : is_lowercase(password[i])
         THEN ValidationError(MsgPwLower)
    ELSE Ok

\* inputs: a run of one character followed by a short free suffix over
\* 'a', 'A', '1', U+00E9 (two bytes in UTF-8) and U+0391 (GREEK CAPITAL ALPHA)
PasswordInputs ==
    { Rep(c, n) \o t : c \in {97, 65, 49}, n \in 0..MinPasswordLen,
                       t \in Strings({97, 65, 49, 233, 913}, MaxTail) }

---------------------------------------------------------------------------
(* validate_email *)

MaxEmailLen == 100

MsgEmailFormat == "Invalid email format"
MsgEmailLong == "Email is too long (max 100 characters)"
MsgEmailAt == "Email must contain @ character"

\* [a-zA-Z0-9._%+-]
EmailLocalChar(c) == AsciiAlpha(c) \/ c \in 48..57 \/ c \in {46, 95, 37, 43, 45}
\* [a-zA-Z0-9.-]
EmailDomainChar(c) == AsciiAlpha(c) \/ c \in 48..57 \/ c \in {46, 45}

\* ^[a-zA-Z0-9._%+-]+@[a-zA-Z0-9.-]+\.[a-zA-Z]{2,}$
\* i is the position of the '@', j the position of the '.' before the tld
email_regex(s) ==
    \E i \in 1..Len(s) :
        /\ s[i] = 64
        /\ i >= 2
        /\ \A k \in 1..(i - 1) : EmailLocalChar(s[k])
        /\ \E j \in (i + 2)..Len(s) :
              /\ s[j] = 46
              /\ Len(s) - j >= 2
              /\ \A k \in (j + 1)..Len(s) : AsciiAlpha(s[k])
              /\ \A k \in (i + 1)..(j - 1) : EmailDomainChar(s[k])

\* faulty variant: the length check moved in front of the pattern check
validate_email_LengthFirst(email) ==
    IF len(email) > MaxEmailLen THEN ValidationError(MsgEmailLong)
    ELSE IF ~ email_regex(email) THEN ValidationError(MsgEmailFormat)
    ELSE IF ~ contains(email, 64) THEN ValidationError(MsgEmailAt)
    ELSE Ok

\* faulty variant: the length limit off by one (>= for >)
validate_email_OffByOne(email) ==
    IF ~ email_regex(email) THEN ValidationError(MsgEmailFormat)
    ELSE IF len(email) >= MaxEmailLen THEN ValidationError(MsgEmailLong)
    ELSE IF ~ contains(email, 64) THEN ValidationError(MsgEmailAt)
    ELSE Ok

\* faulty variant: the '@' check moved in front of the pattern check
validate_email_AtFirst(email) ==
    IF ~ contains(email, 64) THEN ValidationError(MsgEmailAt)
    ELSE IF ~ email_regex(email) THEN ValidationError(MsgEmailFormat)
    ELSE IF len(email) > MaxEmailLen THEN ValidationError(MsgEmailLong)
    ELSE Ok

validate_email(email) ==
    IF ~ email_regex(email) THEN ValidationError(MsgEmailFormat)
    ELSE IF len(email) > MaxEmailLen THEN ValidationError(MsgEmailLong)
    ELSE IF ~ contains(email, 64) THEN ValidationError(MsgEmailAt)
    ELSE Ok

\* inputs: a run of 'a' (short, or reaching the length limit) followed by a
\* free suffix over 'a', '@', '.', '1', and some suffixes with other characters
EmailPads == (0..1) \cup { n \in 0..(MaxEmailLen + 1) : n >= MaxEmailLen - MaxEmailTail - Window }

EmailTails ==
    Strings({97, 64, 46, 49}, MaxEmailTail)
    \cup { <<64, 98, 46, 99, 111>>,              \* "@b.co"
           <<64, 98, 46, 99, 111, 10>>,          \* "@b.co\n"
           <<64, 66, 45, 98, 46, 67, 79>>,       \* "@B-b.CO"
           <<95, 37, 43, 45, 64, 98, 46, 99, 111>>,  \* "_%+-@b.co"
           <<64, 98, 95, 46, 99, 111>>,          \* "@b_.co"
           <<233, 64, 98, 46, 99, 111>>,         \* U+00E9 "@b.co"
           <<64, 98, 46, 99, 233>>,              \* "@b.c" U+00E9
           <<32, 64, 98, 46, 99, 111>> }         \* " @b.co"

EmailInputs == { Rep(97, n) \o t : n \in EmailPads, t \in EmailTails }

---------------------------------------------------------------------------
(* validate_phone_number *)

PhoneMinRun == 6
PhoneMaxRun == 20
PhoneMinDigits == 6

MsgPhoneFormat == "Invalid phone number format. Use only digits, spaces, hyphens, and optionally a + prefix"
MsgPhoneDigits == "Phone number must contain at least 6 digits"

\* [\d\s-]
PhoneChar(c) == RegexDigit(c) \/ is_whitespace(c) \/ c = 45

\* ^[+]?[\d\s-]{6,20}$ ; k is the number of characters taken by [+]?
phone_regex(s) ==
    \E k \in 0..1 :
        /\ k = 1 => (Len(s) >= 1 /\ s[1] = 43)
        /\ Len(s) - k >= PhoneMinRun
        /\ Len(s) - k <= PhoneMaxRun
        /\ \A i \in (k + 1)..Len(s) : PhoneChar(s[i])

\* phone.chars().filter(|c| c.is_digit(10)).count()
digit_count(s) == Cardinality({ i \in 1..Len(s) : is_digit(s[i]) })

\* faulty variant: the digit-count check dropped
validate_phone_number_NoDigitCheck(phone) ==
    IF ~ phone_regex(phone) THEN ValidationError(MsgPhoneFormat)
    ELSE Ok

validate_phone_number(phone) ==
    IF ~ phone_regex(phone) THEN ValidationError(MsgPhoneFormat)
    ELSE IF digit_count(phone) < PhoneMinDigits THEN ValidationError(MsgPhoneDigits)
    ELSE Ok

\* inputs: an optional '+', a run of '1' or '-', and a free suffix over
\* '+', '1', ' ', '-', TAB, 'a', U+0663 (ARABIC-INDIC DIGIT THREE),
\* U+07C0 (NKO DIGIT ZERO)
PhoneInputs ==
    { h \o Rep(c, n) \o t : h \in {<<>>, <<43>>}, c \in {49, 45}, n \in 0..MaxPhonePad,
                            t \in Strings({43, 49, 32, 45, 9, 97, 1635, 1984}, MaxTail - 1) }

---------------------------------------------------------------------------
(* validate_username *)

MinUsernameLen == 3
MaxUsernameLen == 50

MsgUserShort == "Username must be at least 3 characters long"
MsgUserLong == "Username is too long (max 50 characters)"
MsgUserChars == "Username can only contain letters, numbers, underscores and dots"

\* [a-zA-Z0-9_\.]
UsernameChar(c) == AsciiAlpha(c) \/ c \in 48..57 \/ c = 95 \/ c = 46

\* ^[a-zA-Z0-9_\.]+$
username_regex(s) == Len(s) >= 1 /\ \A i \in 1..Len(s) : UsernameChar(s[i])

validate_username(username) ==
    IF len(username) < MinUsernameLen THEN ValidationError(MsgUserShort)
    ELSE IF len(username) > MaxUsernameLen THEN ValidationError(MsgUserLong)
    ELSE IF ~ username_regex(username) THEN ValidationError(MsgUserChars)
    ELSE Ok

\* inputs: a run of 'a' or U+00E9 and a free suffix over
\* 'a', 'Z', '9', '_', '.', ' ', U+00E9, LF
UsernamePads == (0..Window) \cup { n \in 0..(MaxUsernameLen + 1) : n >= MaxUsernameLen - MaxTail - Window }

UsernameInputs ==
    { Rep(c, n) \o t : c \in {97, 233}, n \in UsernamePads,
                       t \in Strings({97, 90, 57, 95, 46, 32, 233, 10}, MaxTail - 1) }

---------------------------------------------------------------------------
(* validate_full_name *)

MinNameLen == 2
MaxNameLen == 100
MinNameParts == 2

MsgNameShort == "Full name must be at least 2 characters long"
MsgNameLong == "Full name is too long (max 100 characters)"
MsgNameParts == "Full name must include both first and last name"
MsgNameChars == "Full name can only contain letters, spaces, hyphens and apostrophes"

\* the diacritics listed in the pattern, lower case then upper case
PolishDiacritics ==
    {261, 263, 281, 322, 324, 243, 347, 378, 380,
     260, 262, 280, 321, 323, 211, 346, 377, 379}

\* [a-zA-Z<diacritics> \-\']
NameChar(c) == AsciiAlpha(c) \/ c \in PolishDiacritics \/ c \in {32, 45, 39}

\* ^[a-zA-Z<diacritics> \-\']+$
name_regex(s) == Len(s) >= 1 /\ \A i \in 1..Len(s) : NameChar(s[i])

validate_full_name(full_name) ==
    IF len(full_name) < MinNameLen THEN ValidationError(MsgNameShort)
    ELSE IF len(full_name) > MaxNameLen THEN ValidationError(MsgNameLong)
    ELSE IF Len(split_whitespace(full_name)) < MinNameParts THEN ValidationError(MsgNameParts)
    ELSE IF ~ name_regex(full_name) THEN ValidationError(MsgNameChars)
    ELSE Ok

\* inputs: a run of 'a' or U+0142 (two bytes in UTF-8), short, reaching the
\* limit in characters or reaching it in bytes, and a free suffix over
\* 'a', U+0142, ' ', '\'', '1', TAB
NamePads ==
    (0..Window)
    \cup { n \in 0..(MaxNameLen + 1) : n >= MaxNameLen - MaxTail - Window }
    \cup { n \in 0..(MaxNameLen \div 2 + 1) : n >= MaxNameLen \div 2 - MaxTail - Window }

NameInputs ==
    { Rep(c, n) \o t : c \in {97, 322}, n \in NamePads,
                       t \in Strings({97, 322, 32, 39, 49, 9}, MaxTail) }

---------------------------------------------------------------------------
(* validate_role *)

RoleClient == <<99, 108, 105, 101, 110, 116>>          \* "client"
RoleTrainer == <<116, 114, 97, 105, 110, 101, 114>>    \* "trainer"

MsgRole == "Invalid role. Must be 'client' or 'trainer'"

\* faulty variant: the role returned as given instead of lower-cased
validate_role_NotLowered(role) ==
    IF to_lowercase(role) = RoleClient \/ to_lowercase(role) = RoleTrainer
    THEN OkString(role)
    ELSE ValidationError(MsgRole)

validate_role(role) ==
    IF to_lowercase(role) = RoleClient \/ to_lowercase(role) = RoleTrainer
    THEN OkString(to_lowercase(role))
    ELSE ValidationError(MsgRole)

\* the ASCII upper-case form of a lower-case ASCII letter
AsciiToUpper(c) == IF AsciiLower(c) THEN c - 32 ELSE c

\* inputs: every upper/lower-case spelling of "client", "trainer" and "admin",
\* each as it is, with one character replaced, or with one character
\* inserted; the odd characters are 'x', ' ', U+0130 (lower-cases to two
\* characters), U+0131 (dotless i), U+212A (KELVIN SIGN), U+00C9, U+03A3
\* (capital sigma) and U+0181
RoleWords == { RoleClient, RoleTrainer, <<97, 100, 109, 105, 110>> }

RoleSpellings ==
    { [i \in 1..Len(w) |-> IF i \in up THEN AsciiToUpper(w[i]) ELSE w[i]] :
        w \in RoleWords, up \in SUBSET (1..Len(RoleTrainer)) }

RoleOdd == {120, 32, 304, 305, 8490, 201, 931, 385}

RoleInputs ==
    RoleSpellings
    \cup UNION { { [s EXCEPT ![i] = c] : i \in 1..Len(s), c \in RoleOdd } : s \in RoleSpellings }
    \cup UNION { { SubSeq(s, 1, i) \o <<c>> \o SubSeq(s, i + 1, Len(s)) :
                     i \in 0..Len(s), c \in RoleOdd } :
                 s \in { w \in RoleSpellings : w = to_lowercase(w) } }
    \cup UNION { { SubSeq(s, 1, i) : i \in 0..Len(s) } : s \in RoleWords }

---------------------------------------------------------------------------
(* hash_password, verify_password *)

\* bcrypt::DEFAULT_COST
DEFAULT_COST == 12
\* the bcrypt crate hashes at most this many bytes of the NUL-terminated password
BcryptMaxKey == 72

\* the UTF-8 encoding of one code point
Utf8(c) ==
    IF c < 128 THEN <<c>>
    ELSE IF c < 2048 THEN <<192 + (c \div 64), 128 + (c % 64)>>
    ELSE IF c < 65536 THEN <<224 + (c \div 4096), 128 + ((c \div 64) % 64), 128 + (c % 64)>>
    ELSE <<240 + (c \div 262144), 128 + ((c \div 4096) % 64),
           128 + ((c \div 64) % 64), 128 + (c % 64)>>

RECURSIVE ToBytes(_)
\* str::as_bytes()
ToBytes(s) == IF s = <<>> THEN <<>> ELSE Utf8(Head(s)) \o ToBytes(Tail(s))

\* the key bcrypt::hash and bcrypt::verify feed to the Blowfish key schedule:
\* the password bytes, a terminating NUL, cut to the first 72 bytes.  The
\* passwords explored hold no NUL character, whose handling differs between
\* versions of the bcrypt crate.
BcryptKey(password) ==
    LET v == ToBytes(password) \o <<0>>
    IN  IF Len(v) > BcryptMaxKey THEN SubSeq(v, 1, BcryptMaxKey) ELSE v

\* the bcrypt digest, taken to be collision-free: it is represented by the
\* triple it is computed from
BcryptDigest(cost, salt, key) == <<cost, salt, key>>

\* bcrypt::hash(password, DEFAULT_COST) with the salt it drew; the encoded
\* hash string "$2b$<cost>$<salt><digest>" is represented by a record
hash_password(password, salt) ==
    [cost |-> DEFAULT_COST, salt |-> salt,
     digest |-> BcryptDigest(DEFAULT_COST, salt, BcryptKey(password))]

\* bcrypt::verify(password, hash): recompute with the cost and salt of the
\* hash and compare the digests
verify_password(password, h) ==
    OkBool(BcryptDigest(h.cost, h.salt, BcryptKey(password)) = h.digest)

Salts == 1..NumSalts

\* inputs: a run of 'a' (empty, or around the 72-byte limit) and a free
\* suffix over 'a', 'b', U+00E9
BcryptPads == {0} \cup { n \in 0..BcryptMaxKey : n >= BcryptMaxKey - MaxPwTail }

BcryptInputs == { Rep(97, n) \o t : n \in BcryptPads, t \in Strings({97, 98, 233}, MaxPwTail) }

---------------------------------------------------------------------------
(* The calls *)

Init ==
    /\ pc = "call"
    /\ res = NoResult
    /\ hash = <<>>
    /\ \/ fn = "validate_password" /\ arg \in PasswordInputs /\ arg2 = <<>>
       \/ fn = "validate_email" /\ arg \in EmailInputs /\ arg2 = <<>>
       \/ fn = "validate_phone_number" /\ arg \in PhoneInputs /\ arg2 = <<>>
       \/ fn = "validate_username" /\ arg \in UsernameInputs /\ arg2 = <<>>
       \/ fn = "validate_full_name" /\ arg \in NameInputs /\ arg2 = <<>>
       \/ fn = "validate_role" /\ arg \in RoleInputs /\ arg2 = <<>>
       \/ fn = "hash_password" /\ arg \in BcryptInputs /\ arg2 \in BcryptInputs

CallValidatePassword ==
    /\ pc = "call" /\ fn = "validate_password"
    /\ res' = validate_password(arg)
    /\ pc' = "done"
    /\ UNCHANGED <<fn, arg, arg2, hash>>

CallValidateEmail ==
    /\ pc = "call" /\ fn = "validate_email"
    /\ res' = validate_email(arg)
    /\ pc' = "done"
    /\ UNCHANGED <<fn, arg, arg2, hash>>

CallValidatePhoneNumber ==
    /\ pc = "call" /\ fn = "validate_phone_number"
    /\ res' = validate_phone_number(arg)
    /\ pc' = "done"
    /\ UNCHANGED <<fn, arg, arg2, hash>>

CallValidateUsername ==
    /\ pc = "call" /\ fn = "validate_username"
    /\ res' = validate_username(arg)
    /\ pc' = "done"
    /\ UNCHANGED <<fn, arg, arg2, hash>>

CallValidateFullName ==
    /\ pc = "call" /\ fn = "validate_full_name"
    /\ res' = validate_full_name(arg)
    /\ pc' = "done"
    /\ UNCHANGED <<fn, arg, arg2, hash>>

CallValidateRole ==
    /\ pc = "call" /\ fn = "validate_role"
    /\ res' = validate_role(arg)
    /\ pc' = "done"
    /\ UNCHANGED <<fn, arg, arg2, hash>>

\* registration: hash_password(arg) draws a fresh salt and returns the hash
CallHashPassword ==
    /\ pc = "call" /\ fn = "hash_password"
    /\ \E salt \in Salts : hash' = hash_password(arg, salt)
    /\ pc' = "hashed"
    /\ UNCHANGED <<fn, arg, arg2, res>>

\* login: verify_password(arg2, hash) against the stored hash
CallVerifyPassword ==
    /\ pc = "hashed" /\ fn = "hash_password"
    /\ res' = verify_password(arg2, hash)
    /\ pc' = "done"
    /\ UNCHANGED <<fn, arg, arg2, hash>>

Next ==
    \/ CallValidatePassword
    \/ CallValidateEmail
    \/ CallValidatePhoneNumber
    \/ CallValidateUsername
    \/ CallValidateFullName
    \/ CallValidateRole
    \/ CallHashPassword
    \/ CallVerifyPassword

Spec == Init /\ [][Next]_vars

---------------------------------------------------------------------------
(* What the claims say of an input, stated apart from the code *)

Done(f) == pc = "done" /\ fn = f

HasDigit(s) == \E i \in 1..Len(s) : s[i] \in 48..57
HasUpper(s) == \E i \in 1..Len(s) : is_uppercase(s[i])
HasLower(s) == \E i \in 1..Len(s) : is_lowercase(s[i])

\* s equals the lower-case word w up to the case of its letters
EqIgnoreCase(s, w) ==
    /\ Len(s) = Len(w)
    /\ \A i \in 1..Len(w) : s[i] = w[i] \/ s[i] = w[i] - 32

\* s with its ASCII capitals lower-cased
AsciiLowered(s) == [i \in 1..Len(s) |-> IF s[i] \in 65..90 THEN s[i] + 32 ELSE s[i]]

\* the email form local@domain.tld, parsed from the single '@' and the last '.'
EmailForm(s) ==
    LET ats == { i \in 1..Len(s) : s[i] = 64 }
    IN  /\ Cardinality(ats) = 1
        /\ LET a == CHOOSE i \in ats : TRUE
               dots == { j \in (a + 1)..Len(s) : s[j] = 46 }
           IN  /\ a > 1
               /\ \A k \in 1..(a - 1) : EmailLocalChar(s[k])
               /\ dots # {}
               /\ LET d == CHOOSE j \in dots : \A m \in dots : m <= j
                  IN  /\ d > a + 1
                      /\ \A k \in (a + 1)..(d - 1) : EmailDomainChar(s[k])
                      /\ Len(s) >= d + 2
                      /\ \A k \in (d + 1)..Len(s) : AsciiAlpha(s[k])

\* the phone form of the claim: an optional '+', then 6 to 20 characters
\* each an ASCII digit, a space or a hyphen, at least 6 of them digits
PhoneForm(s) ==
    LET body == IF s # <<>> /\ s[1] = 43 THEN Tail(s) ELSE s
    IN  /\ Len(body) >= 6 /\ Len(body) <= 20
        /\ \A i \in 1..Len(body) : body[i] \in 48..57 \/ body[i] = 32 \/ body[i] = 45
        /\ Cardinality({ i \in 1..Len(s) : s[i] \in 48..57 }) >= 6

\* the number of non-empty parts of s between whitespace: the positions
\* where a part starts
NameParts(s) ==
    Cardinality({ i \in 1..Len(s) :
                    /\ ~ is_whitespace(s[i])
                    /\ (i = 1 \/ is_whitespace(s[i - 1])) })

\* s is made of ASCII characters only (bytes and characters then agree)
Ascii(s) == \A i \in 1..Len(s) : s[i] < 128

\* s is made of the characters the phone claim names: '+', 0-9, ' ', '-'
PhoneClaimChars(s) == \A i \in 1..Len(s) : s[i] \in 48..57 \/ s[i] \in {43, 32, 45}

AllNameChars(s) == \A i \in 1..Len(s) : NameChar(s[i])
AllUsernameChars(s) == \A i \in 1..Len(s) : UsernameChar(s[i])

---------------------------------------------------------------------------
(* The claims *)

\* C1: validate_password(p) succeeds iff p has at least 8 CHARACTERS, an
\* ASCII digit, an uppercase and a lowercase letter; when exactly one of the
\* four is missing the error carries the message of the missing one.
\* Violated: the code compares the UTF-8 byte length.
C1_PasswordRule ==
    Done("validate_password") =>
        LET long == Len(arg) >= 8
            dig == HasDigit(arg)
            up == HasUpper(arg)
            low == HasLower(arg)
        IN  /\ res = Ok <=> (long /\ dig /\ up /\ low)
            /\ (~ long /\ dig /\ up /\ low) => res = ValidationError(MsgPwShort)
            /\ (long /\ ~ dig /\ up /\ low) => res = ValidationError(MsgPwDigit)
            /\ (long /\ dig /\ ~ up /\ low) => res = ValidationError(MsgPwUpper)
            /\ (long /\ dig /\ up /\ ~ low) => res = ValidationError(MsgPwLower)

\* C2: for every hash h of p, verify_password(p2, h) is Ok(true) if p2 = p
\* and Ok(false) if p2 # p, whatever the length of p and p2.
\* Violated: bcrypt hashes the first 72 bytes only.
C2_VerifyIffEqual ==
    Done("hash_password") => res = OkBool(arg2 = arg)

\* C3: validate_role(r) succeeds iff r equals "client" or "trainer" up to
\* case; the Ok value is the lower-cased role, is exactly "client" or
\* "trainer", and validate_role maps it to itself; every other input yields
\* a ValidationError.
C3_RoleRule ==
    Done("validate_role") =>
        LET good == EqIgnoreCase(arg, RoleClient) \/ EqIgnoreCase(arg, RoleTrainer)
        IN  /\ res.tag = "Ok" <=> good
            /\ good => /\ res = OkString(AsciiLowered(arg))
                       /\ res.value \in {RoleClient, RoleTrainer}
                       /\ validate_role(res.value) = res
            /\ ~ good => res = ValidationError(MsgRole)

C3_Witness ==
    /\ Done("validate_role")
    /\ arg = <<84, 114, 97, 105, 110, 101, 114>>     \* "Trainer"
    /\ res = OkString(RoleTrainer)

\* C4 as stated: every validator checks length first, then the character
\* set / pattern, then the structure (name parts), and reports the first
\* violated rule in that order.
\* Stated for ASCII inputs, whose length is the same in bytes and characters.
\* Violated: validate_email checks the pattern before the length, and
\* validate_full_name counts the name parts before the character set.
C4_LengthCharsStructure ==
    Ascii(arg) =>
    /\ Done("validate_email") =>
          /\ len(arg) > MaxEmailLen => res = ValidationError(MsgEmailLong)
          /\ (len(arg) <= MaxEmailLen /\ ~ EmailForm(arg)) => res = ValidationError(MsgEmailFormat)
    /\ Done("validate_username") =>
          /\ len(arg) < MinUsernameLen => res = ValidationError(MsgUserShort)
          /\ len(arg) > MaxUsernameLen => res = ValidationError(MsgUserLong)
          /\ (len(arg) \in MinUsernameLen..MaxUsernameLen /\ ~ AllUsernameChars(arg))
                => res = ValidationError(MsgUserChars)
    /\ Done("validate_full_name") =>
          /\ len(arg) < MinNameLen => res = ValidationError(MsgNameShort)
          /\ len(arg) > MaxNameLen => res = ValidationError(MsgNameLong)
          /\ (len(arg) \in MinNameLen..MaxNameLen /\ ~ AllNameChars(arg))
                => res = ValidationError(MsgNameChars)
          /\ (len(arg) \in MinNameLen..MaxNameLen /\ AllNameChars(arg) /\ NameParts(arg) < 2)
                => res = ValidationError(MsgNameParts)

\* C4 amended: the first violated rule in the order of the code decides the
\* message: validate_username length, then character set; validate_email
\* pattern, then length; validate_full_name length, then name parts, then
\* character set.
C4_CodeOrder ==
    /\ Done("validate_email") =>
          /\ ~ EmailForm(arg) => res = ValidationError(MsgEmailFormat)
          /\ (EmailForm(arg) /\ len(arg) > MaxEmailLen) => res = ValidationError(MsgEmailLong)
    /\ Done("validate_username") =>
          /\ len(arg) < MinUsernameLen => res = ValidationError(MsgUserShort)
          /\ len(arg) > MaxUsernameLen => res = ValidationError(MsgUserLong)
          /\ (len(arg) \in MinUsernameLen..MaxUsernameLen /\ ~ AllUsernameChars(arg))
                => res = ValidationError(MsgUserChars)
    /\ Done("validate_full_name") =>
          /\ len(arg) < MinNameLen => res = ValidationError(MsgNameShort)
          /\ len(arg) > MaxNameLen => res = ValidationError(MsgNameLong)
          /\ (len(arg) \in MinNameLen..MaxNameLen /\ NameParts(arg) < 2)
                => res = ValidationError(MsgNameParts)
          /\ (len(arg) \in MinNameLen..MaxNameLen /\ NameParts(arg) >= 2 /\ ~ AllNameChars(arg))
                => res = ValidationError(MsgNameChars)

\* an over-long email of malformed format gets the format message
C4_Witness ==
    /\ Done("validate_email")
    /\ len(arg) > MaxEmailLen
    /\ ~ EmailForm(arg)
    /\ res = ValidationError(MsgEmailFormat)

\* C5: validate_phone_number(s) succeeds iff s is an optional '+' followed
\* by 6 to 20 characters each a digit 0-9, a space or a hyphen, with at least
\* 6 digits; every other input (one with a tab, a newline, ...) is rejected.
\* Violated: \s and \d of the pattern are the Unicode classes.
C5_PhoneRule ==
    Done("validate_phone_number") =>
        /\ res = Ok <=> PhoneForm(arg)
        /\ ~ PhoneForm(arg) => res.tag = "ValidationError"

\* C6: validate_full_name(s) succeeds iff s has 2 to 100 CHARACTERS, at
\* least 2 whitespace-separated parts and only permitted characters; a name
\* of at most 100 characters made of permitted diacritics is not rejected as
\* too long.
\* Violated: the code compares the UTF-8 byte length.
C6_FullNameRule ==
    Done("validate_full_name") =>
        /\ res = Ok <=> (Len(arg) >= 2 /\ Len(arg) <= 100 /\ NameParts(arg) >= 2 /\ AllNameChars(arg))
        /\ (Len(arg) <= 100 /\ AllNameChars(arg)) => res # ValidationError(MsgNameLong)

\* C7: validate_email(s) succeeds iff s has length <= 100 and the form
\* local@domain.tld; an input of more than 100 characters of that form is
\* rejected with the too-long message.
C7_EmailRule ==
    Done("validate_email") =>
        /\ res = Ok <=> (Len(arg) <= 100 /\ EmailForm(arg))
        /\ (Len(arg) > 100 /\ EmailForm(arg)) => res = ValidationError(MsgEmailLong)
        /\ res # Ok => res.tag = "ValidationError"

C7_Witness ==
    /\ Done("validate_email")
    /\ Len(arg) = 101
    /\ EmailForm(arg)
    /\ res = ValidationError(MsgEmailLong)

\* C8: validate_username(s) succeeds iff the length of s, in characters, is
\* between 3 and 50 and every character is an ASCII letter, a digit, '_' or
\* '.'; shorter than 3 gets the too-short message, longer than 50 the
\* too-long message, valid length with another character the character-set
\* message.
\* Violated: the code compares the UTF-8 byte length, so two characters of
\* two bytes each get the character-set message, not the too-short one.
C8_UsernameRule ==
    Done("validate_username") =>
        LET n == Len(arg)
        IN  /\ res = Ok <=> (n >= 3 /\ n <= 50 /\ AllUsernameChars(arg))
            /\ n < 3 => res = ValidationError(MsgUserShort)
            /\ n > 50 => res = ValidationError(MsgUserLong)
            /\ (n >= 3 /\ n <= 50 /\ ~ AllUsernameChars(arg)) => res = ValidationError(MsgUserChars)

\* C9 as stated: the digit-count check is implied by the pattern check, so
\* the "at least 6 digits" error is never returned.  Stated for the inputs
\* made of '+', digits 0-9, spaces and hyphens only.
\* Violated: "------" matches the pattern and has no digit.
C9_DigitCheckRedundant ==
    (Done("validate_phone_number") /\ PhoneClaimChars(arg))
        => res # ValidationError(MsgPhoneDigits)

\* C9 amended: the digit-count check is not implied by the pattern check: an
\* input gets the "at least 6 digits" error exactly when it matches the
\* pattern and has fewer than 6 ASCII digits, and is accepted exactly when it
\* matches the pattern and has at least 6.
C9_DigitCheckDecides ==
    Done("validate_phone_number") =>
        LET digits == Cardinality({ i \in 1..Len(arg) : arg[i] \in 48..57 })
        IN  /\ res = ValidationError(MsgPhoneDigits) <=> (phone_regex(arg) /\ digits < 6)
            /\ res = Ok <=> (phone_regex(arg) /\ digits >= 6)

\* six hyphens match the pattern and are rejected by the digit count
C9_Witness ==
    /\ Done("validate_phone_number")
    /\ arg = <<45, 45, 45, 45, 45, 45>>
    /\ res = ValidationError(MsgPhoneDigits)

\* C10: validate_email never returns "Email must contain @ character": an
\* input without '@' is rejected by the pattern check with "Invalid email
\* format".
C10_AtCheckUnreachable ==
    Done("validate_email") =>
        /\ res # ValidationError(MsgEmailAt)
        /\ (\A i \in 1..Len(arg) : arg[i] # 64) => res = ValidationError(MsgEmailFormat)

C10_Witness ==
    /\ Done("validate_email")
    /\ \A i \in 1..Len(arg) : arg[i] # 64
    /\ Len(arg) >= 1
    /\ res = ValidationError(MsgEmailFormat)

=============================================================================
